---- MODULE Spec2Model ----
(***************************************************************************)
(* A model of package turing (the Turing stream cipher): the Cipher        *)
(* struct, NewCipher, Reset, XORKeyStream and the unexported helpers.      *)
(*                                                                         *)
(* A uint32 is held as two 16-bit limbs <<hi, lo>> (value hi*2^16 + lo),   *)
(* because TLC's integers are 32-bit signed.  Every operation on words is  *)
(* exact modulo 2^32.  Go arrays and slices are functions on 0..n-1, so    *)
(* indices are the source's indices.                                       *)
(***************************************************************************)
EXTENDS Integers, Sequences, FiniteSets, TLC

\* ------------------------------------------------------------------ words

Limb == 2^16

RECURSIVE BitRec(_, _, _, _)
\* Bitwise combination of two n-bit naturals; op is "xor", "or" or "and".
BitRec(op, a, b, n) ==
  IF n = 0 THEN 0
  ELSE LET x == a % 2
           y == b % 2
           z == IF op = "xor" THEN (x + y) % 2
                ELSE IF op = "or" THEN (IF x + y > 0 THEN 1 ELSE 0)
                ELSE x * y
       IN  z + 2 * BitRec(op, a \div 2, b \div 2, n - 1)

XorNib == [a \in 0..15 |-> [b \in 0..15 |-> BitRec("xor", a, b, 4)]]

OrNib == [a \in 0..15 |-> [b \in 0..15 |-> BitRec("or", a, b, 4)]]

AndNib == [a \in 0..15 |-> [b \in 0..15 |-> BitRec("and", a, b, 4)]]

\* A nibble table applied to two 16-bit limbs.
Nib16(T, a, b) ==
    T[a \div 4096][b \div 4096] * 4096
  + T[(a \div 256) % 16][(b \div 256) % 16] * 256
  + T[(a \div 16) % 16][(b \div 16) % 16] * 16
  + T[a % 16][b % 16]

\* Go's ^ on bytes
XorByte(a, b) == XorNib[a \div 16][b \div 16] * 16 + XorNib[a % 16][b % 16]

\* Go's ^, | and & on uint32
Xor(a, b) == <<Nib16(XorNib, a[1], b[1]), Nib16(XorNib, a[2], b[2])>>

Or(a, b) == <<Nib16(OrNib, a[1], b[1]), Nib16(OrNib, a[2], b[2])>>

And(a, b) == <<Nib16(AndNib, a[1], b[1]), Nib16(AndNib, a[2], b[2])>>

\* Go's + on uint32: wraps modulo 2^32
Add(a, b) ==
  LET lo == a[2] + b[2]
  IN  <<(a[1] + b[1] + lo \div Limb) % Limb, lo % Limb>>

\* Go's << on uint32: bits shifted out are lost, a count >= 32 gives 0
Shl(w, n) ==
  IF n = 0 THEN w
  ELSE IF n < 16 THEN <<((w[1] * 2^n) % Limb) + (w[2] \div 2^(16 - n)), (w[2] * 2^n) % Limb>>
  ELSE IF n < 32 THEN <<(w[2] * 2^(n - 16)) % Limb, 0>>
  ELSE <<0, 0>>

\* Go's >> on uint32
Shr(w, n) ==
  IF n = 0 THEN w
  ELSE IF n < 16 THEN <<w[1] \div 2^n, ((w[1] % 2^n) * 2^(16 - n)) + (w[2] \div 2^n)>>
  ELSE IF n < 32 THEN <<0, w[1] \div 2^(n - 16)>>
  ELSE <<0, 0>>

\* uint32(b) for a byte or a small int
U32(n) == <<n \div Limb, n % Limb>>

Zero == <<0, 0>>

\* ------------------------------------------------------------------ util.go

getOctet(word, n) == And(Shr(word, 24 - n * 8), U32(255))[2]

\* splitWord: the four octets, most significant first, as a function on 0..3
splitWord(word) ==
  [k \in 0..3 |->
     IF k = 0 THEN And(Shr(word, 24), U32(255))[2]
     ELSE IF k = 1 THEN And(Shr(word, 16), U32(255))[2]
     ELSE IF k = 2 THEN And(Shr(word, 8), U32(255))[2]
     ELSE And(word, U32(255))[2]]

joinWord(octets) ==
  Or(Or(Or(Shl(U32(octets[0]), 24), Shl(U32(octets[1]), 16)), Shl(U32(octets[2]), 8)), U32(octets[3]))

rotl(word, shift) == Or(Shl(word, shift), Shr(word, 32 - shift))

rotr(word, shift) == Or(Shr(word, shift), Shl(word, 32 - shift))

\* ------------------------------------------------------------------ tables
\* The table literals sbox, qbox and mtab are not part of the available
\* source.  sbox and qbox are fixed stand-ins of the right shapes (sbox a byte
\* permutation, qbox byte -> word).  mtab is what the specification says it
\* is: multiplication of the byte by a fixed field element, one per octet of
\* the word, so that mtab[0] = 0.

sbox == [i \in 0..255 |-> (i * 167 + 97) % 256]

qbox == [i \in 0..255 |-> <<(i * 40503 + 11213) % Limb, (i * 25717 + 3571) % Limb>>]

\* multiplication by the indeterminate in GF(2^8), reduced by the field polynomial
xtime(b) == IF 2 * b >= 256 THEN XorByte(2 * b - 256, 77) ELSE 2 * b

RECURSIVE gmul(_, _)
\* the product of bytes a and m in GF(2^8)
gmul(a, m) ==
  IF m = 0 THEN 0
  ELSE XorByte(IF m % 2 = 1 THEN a ELSE 0, gmul(xtime(a), m \div 2))

mtab == [i \in 0..255 |-> <<gmul(i, 208) * 256 + gmul(i, 43), gmul(i, 67) * 256 + gmul(i, 103)>>]

\* ------------------------------------------------------------------ constants

reglen == 17
minkey == 8
maxkey == 32
maxiv == 48
confounder == <<258, 768>>
buflen == 20

\* A byte slice or array as a function on 0..n-1
Len0(f) == Cardinality(DOMAIN f)

\* The identity on functions; comparing f makes TLC tabulate it once instead
\* of re-evaluating its defining expression at every application.
Tab(f) == IF f = f THEN f ELSE f

Empty == [i \in {} |-> 0]

\* ------------------------------------------------------------------ fixedS, hadamard

RECURSIVE fixedSLoop(_, _)
\* the loop of fixedS from iteration i on
fixedSLoop(word, i) ==
  IF i >= 4 THEN word
  ELSE LET shift == i * 8
           octet == sbox[getOctet(word, i)]
       IN  fixedSLoop(Or(And(Xor(word, rotl(qbox[octet], shift)), rotr(U32(16777215), shift)),
                         Shl(U32(octet), 24 - shift)),
                      i + 1)

fixedS(word) == fixedSLoop(word, 0)

RECURSIVE SumWords(_, _)
\* sum += w over words[0..n-1]
SumWords(words, n) == IF n = 0 THEN Zero ELSE Add(SumWords(words, n - 1), words[n - 1])

\* pseudo-hadamard transform
hadamard(words) ==
  LET n == Len0(words)
      sum == SumWords(words, n)
      zeroed == [i \in DOMAIN words |-> IF i = n - 1 THEN Zero ELSE words[i]]
  IN  [i \in DOMAIN words |-> Add(zeroed[i], sum)]

\* ------------------------------------------------------------------ keyedS, initKey

RECURSIVE keyedSLoop(_, _, _)
\* s ^= keybox[i][octet] over the octets i..3
keyedSLoop(kb, octets, i) ==
  IF i >= 4 THEN Zero ELSE Xor(kb[i][octets[i]], keyedSLoop(kb, octets, i + 1))

keyedS(kb, word, rotate) == keyedSLoop(kb, splitWord(rotl(word, rotate)), 0)

RECURSIVE boxLoop(_, _, _, _, _)
\* the inner loop of initKey over key words keypos..len-1, from (octet, word)
boxLoop(kw, box, keypos, octet, word) ==
  IF keypos >= Len0(kw) THEN <<octet, word>>
  ELSE LET o2 == sbox[XorByte(getOctet(kw[keypos], box), octet)]
       IN  boxLoop(kw, box, keypos + 1, o2, Xor(word, rotl(qbox[o2], keypos + box * 8)))

boxEntry(kw, box, i) ==
  LET shift == box * 8
      r == boxLoop(kw, box, 0, i, Zero)
  IN  Or(And(r[2], rotr(U32(16777215), shift)), Shl(U32(r[1]), 24 - shift))

\* cipher.key after initKey
keyWords(keybytes) ==
  Tab(hadamard([i \in 0..(Len0(keybytes) \div 4 - 1) |->
                  fixedS(joinWord([k \in 0..3 |-> keybytes[i * 4 + k]]))]))

\* cipher.keybox after initKey
keyBoxes(kw) == [box \in 0..3 |-> [i \in 0..255 |-> boxEntry(kw, box, i)]]

\* ------------------------------------------------------------------ Cipher

\* The zero value of struct Cipher (&Cipher{}).  nclock and blocks are history
\* fields: the number of clockRegister calls so far, and the 20-byte blocks
\* nextRound has written to buffer, oldest first.
ZeroCipher ==
  [key |-> Empty,
   keybox |-> [box \in 0..3 |-> [i \in 0..255 |-> Zero]],
   reg |-> [i \in 0..(reglen - 1) |-> Zero],
   buffer |-> [i \in 0..(buflen - 1) |-> 0],
   bufpos |-> 0,
   nclock |-> 0,
   blocks |-> <<>>]

\* Faulty variant of clockRegister: the feedback word is computed after the
\* shift, from the shifted register.
clockRegisterShiftFirst(c) ==
  LET sh == [i \in 0..(reglen - 1) |-> IF i < reglen - 1 THEN c.reg[i + 1] ELSE c.reg[i]]
      word == Xor(Xor(Xor(sh[15], sh[4]), Shl(sh[0], 8)), mtab[Shr(sh[0], 24)[2]])
  IN  [c EXCEPT !.reg = [sh EXCEPT ![reglen - 1] = word], !.nclock = @ + 1]

RECURSIVE shiftLoop(_, _)
\* for i := 0; i < reglen-1; i++ { reg[i] = reg[i+1] }, from iteration i on
shiftLoop(r, i) ==
  IF i >= reglen - 1 THEN r ELSE shiftLoop([r EXCEPT ![i] = r[i + 1]], i + 1)

\* the feedback word of clockRegister
clockWord(r) ==
  Xor(Xor(Xor(r[15], r[4]), Shl(r[0], 8)), mtab[Shr(r[0], 24)[2]])

clockRegister(c) ==
  LET word == clockWord(c.reg)
  IN  [c EXCEPT !.reg = [shiftLoop(c.reg, 0) EXCEPT ![reglen - 1] = word],
                !.nclock = @ + 1]

\* a, b, c, d, e := reg[16], reg[13], reg[6], reg[1], reg[0], as a 5-tuple
taps(r) == <<r[16], r[13], r[6], r[1], r[0]>>

\* e += a + b + c + d;  a, b, c, d = a+e, b+e, c+e, d+e
mix(t) ==
  LET e == Add(t[5], Add(Add(Add(t[1], t[2]), t[3]), t[4]))
  IN  <<Add(t[1], e), Add(t[2], e), Add(t[3], e), Add(t[4], e), e>>

\* a, b, c, d, e = keyedS(a, 0), keyedS(b, 8), keyedS(c, 16), keyedS(d, 24), keyedS(e, 0)
subst(kb, t) ==
  <<keyedS(kb, t[1], 0), keyedS(kb, t[2], 8), keyedS(kb, t[3], 16),
    keyedS(kb, t[4], 24), keyedS(kb, t[5], 0)>>

\* the non-linear filter on the cipher as clocked once
filtered(c1) == mix(subst(c1.keybox, mix(taps(c1.reg))))

\* a, b, c, d, e = a+reg[14], b+reg[12], c+reg[8], d+reg[1], e+reg[0]
output(t, r) ==
  <<Add(t[1], r[14]), Add(t[2], r[12]), Add(t[3], r[8]), Add(t[4], r[1]), Add(t[5], r[0])>>

\* the 20 buffer bytes from the five output words: copy(buffer[4k:4k+4], splitWord(word k))
blockBytes(o) == [i \in 0..(buflen - 1) |-> splitWord(o[(i \div 4) + 1])[i % 4]]

\* Faulty variant of refilled: the buffer is refilled but bufpos is not set back.
refilledNoRewind(c4, blk) == [c4 EXCEPT !.buffer = blk, !.blocks = Append(@, blk)]

\* the buffer refilled with blk and the cursor set back
refilled(c4, blk) == [c4 EXCEPT !.buffer = blk, !.bufpos = 0, !.blocks = Append(@, blk)]

\* nextRound after its first clockRegister: the filter, three clocks, the
\* output block, the last clock
roundAfterClock(c1) ==
  clockRegister(
    refilled(clockRegister(clockRegister(clockRegister(c1))),
             Tab(blockBytes(output(filtered(c1),
                                   clockRegister(clockRegister(clockRegister(c1))).reg)))))

nextRound(c) == roundAfterClock(clockRegister(c))

initKey(c, keybytes) ==
  LET kw == keyWords(keybytes)
  IN  [c EXCEPT !.key = kw, !.keybox = Tab(keyBoxes(kw))]

\* ------------------------------------------------------------------ initIV

\* cipher.reg[idx] = v as Go runs it: an index outside the array panics.
\* st = [reg, r, acc, panic]; acc collects every register index used.
regWrite(st, idx, v) ==
  IF st.panic THEN st
  ELSE IF idx \in 0..(reglen - 1)
       THEN [st EXCEPT !.reg[idx] = v, !.acc = @ \cup {idx}]
       ELSE [st EXCEPT !.panic = TRUE, !.acc = @ \cup {idx}]

\* the value of cipher.reg[idx] (Zero once the read has panicked)
regRead(st, idx) == IF idx \in 0..(reglen - 1) THEN st.reg[idx] ELSE Zero

regTouch(st, idx) ==
  IF st.panic THEN st
  ELSE IF idx \in 0..(reglen - 1)
       THEN [st EXCEPT !.acc = @ \cup {idx}]
       ELSE [st EXCEPT !.panic = TRUE, !.acc = @ \cup {idx}]

RECURSIVE ivLoop(_, _, _)
\* for i := 0; i < len(iv)/4; i++ { reg[r] = fixedS(joinWord(quad)); r++ }
ivLoop(st, iv, i) ==
  IF i >= Len0(iv) \div 4 \/ st.panic THEN st
  ELSE LET quad == [k \in 0..3 |-> iv[i * 4 + k]]
           s1 == regWrite(st, st.r, fixedS(joinWord(quad)))
       IN  ivLoop([s1 EXCEPT !.r = @ + 1], iv, i + 1)

RECURSIVE keyLoop(_, _, _)
\* for _, k := range cipher.key { reg[r] = k; r++ }
keyLoop(st, kw, j) ==
  IF j >= Len0(kw) \/ st.panic THEN st
  ELSE LET s1 == regWrite(st, st.r, kw[j])
       IN  keyLoop([s1 EXCEPT !.r = @ + 1], kw, j + 1)

\* uint32(confounder | (len(cipher.key) << 4) | len(iv)/4)
markerWord(nkey, niv) == Or(Or(confounder, Shl(U32(nkey), 4)), U32(niv))

RECURSIVE fillLoopFromOne(_, _, _)
\* Faulty variant of fillLoop: the recurrence reads reg[i+1] instead of reg[i].
fillLoopFromOne(st, kb, i) ==
  IF st.r >= reglen \/ st.panic THEN st
  ELSE LET s1 == regTouch(regTouch(st, i + 1), st.r - 1)
           v == keyedS(kb, Add(regRead(s1, i + 1), regRead(s1, st.r - 1)), 0)
           s2 == regWrite(s1, st.r, v)
       IN  fillLoopFromOne([s2 EXCEPT !.r = @ + 1], kb, i + 1)

RECURSIVE fillLoop(_, _, _)
\* for i := 0; r < reglen; i++ { reg[r] = keyedS(reg[i]+reg[r-1], 0); r++ }
fillLoop(st, kb, i) ==
  IF st.r >= reglen \/ st.panic THEN st
  ELSE LET s1 == regTouch(regTouch(st, i), st.r - 1)
           v == keyedS(kb, Add(regRead(s1, i), regRead(s1, st.r - 1)), 0)
           s2 == regWrite(s1, st.r, v)
       IN  fillLoop([s2 EXCEPT !.r = @ + 1], kb, i + 1)

\* initIV up to, not including, its final hadamard
initIVFill(c, iv) ==
  LET s0 == [reg |-> c.reg, r |-> 0, acc |-> {}, panic |-> FALSE]
      s1 == ivLoop(s0, iv, 0)
      s2 == keyLoop(s1, c.key, 0)
      s3 == regWrite(s2, s2.r, markerWord(Len0(c.key), Len0(iv) \div 4))
      s4 == [s3 EXCEPT !.r = @ + 1]
  IN  fillLoop(s4, c.keybox, 0)

\* the cipher after initIV, given initIVFill's result
initIV(c, st) == [c EXCEPT !.reg = Tab(hadamard(st.reg))]

\* ------------------------------------------------------------------ NewCipher, Reset, XORKeyStream

NoError == "nil"

\* KeySizeError(msg).Error() is "turing: " + msg; the value itself is msg
KeySizeError(msg) == msg

\* Faulty variant of sizeCheck: the IV's multiple-of-4 rule is tested before
\* the key's.
sizeCheckIvFirst(keylen, ivlen) ==
  IF ivlen % 4 # 0 THEN KeySizeError("iv size must be a multiple of 4")
  ELSE IF keylen % 4 # 0 THEN KeySizeError("key size must be a multiple of 4")
  ELSE IF keylen < minkey THEN KeySizeError("key size must be >= " \o ToString(minkey))
  ELSE IF keylen > maxkey THEN KeySizeError("key size must be <= " \o ToString(maxkey))
  ELSE IF keylen + ivlen > maxiv
       THEN KeySizeError("combined key and iv sizes must be <= " \o ToString(maxiv))
  ELSE NoError

\* The size checks of NewCipher in their order: the error returned, or NoError
sizeCheck(keylen, ivlen) ==
  IF keylen % 4 # 0 THEN KeySizeError("key size must be a multiple of 4")
  ELSE IF ivlen % 4 # 0 THEN KeySizeError("iv size must be a multiple of 4")
  ELSE IF keylen < minkey THEN KeySizeError("key size must be >= " \o ToString(minkey))
  ELSE IF keylen > maxkey THEN KeySizeError("key size must be <= " \o ToString(maxkey))
  ELSE IF keylen + ivlen > maxiv
       THEN KeySizeError("combined key and iv sizes must be <= " \o ToString(maxiv))
  ELSE NoError

\* NewCipher(key, iv): [isnil, err, c, fill].  c is the Cipher pointed to (the
\* zero Cipher stands for "no Cipher" when isnil); fill is initIV's register
\* trace, or NoFill when initIV did not run.
NoFill == [reg |-> ZeroCipher.reg, r |-> 0, acc |-> {}, panic |-> FALSE]

NewCipher(keybytes, iv) ==
  LET e == sizeCheck(Len0(keybytes), Len0(iv))
  IN  IF e # NoError
      THEN [isnil |-> TRUE, err |-> e, c |-> ZeroCipher, fill |-> NoFill]
      ELSE LET c1 == initKey(ZeroCipher, keybytes)
               st == initIVFill(c1, iv)
               c2 == initIV(c1, st)
           IN  [isnil |-> FALSE, err |-> NoError, c |-> nextRound(c2), fill |-> st]

\* Faulty variant of Reset: the register is left as it was.
ResetKeepsReg(c) ==
  [key |-> [i \in DOMAIN c.key |-> Zero],
   keybox |-> [box \in DOMAIN c.keybox |-> [j \in DOMAIN c.keybox[box] |-> Zero]],
   buffer |-> [i \in DOMAIN c.buffer |-> 0],
   reg |-> c.reg,
   bufpos |-> 0,
   nclock |-> 0,
   blocks |-> <<>>]

\* Faulty variant of Reset: the keystream buffer is left as it was.
ResetKeepsBuffer(c) ==
  [key |-> [i \in DOMAIN c.key |-> Zero],
   keybox |-> [box \in DOMAIN c.keybox |-> [j \in DOMAIN c.keybox[box] |-> Zero]],
   buffer |-> c.buffer,
   reg |-> [i \in DOMAIN c.reg |-> Zero],
   bufpos |-> 0,
   nclock |-> 0,
   blocks |-> <<>>]

\* Reset zeroes key, keybox, buffer, reg and bufpos in place.  The history
\* fields restart with it.
Reset(c) ==
  [key |-> [i \in DOMAIN c.key |-> Zero],
   keybox |-> [box \in DOMAIN c.keybox |-> [j \in DOMAIN c.keybox[box] |-> Zero]],
   buffer |-> [i \in DOMAIN c.buffer |-> 0],
   reg |-> [i \in DOMAIN c.reg |-> Zero],
   bufpos |-> 0,
   nclock |-> 0,
   blocks |-> <<>>]

\* Faulty variant of xorByteAt: the keystream byte is added modulo 256
\* instead of XORed.
xorByteAtAdd(ls, c1, i) ==
  IF c1.bufpos \notin DOMAIN c1.buffer
  THEN [ls EXCEPT !.c = c1, !.reads = @ \cup {c1.bufpos}, !.panic = TRUE]
  ELSE [ls EXCEPT !.c = [c1 EXCEPT !.bufpos = @ + 1],
                  !.dst[i] = (ls.src[i] + c1.buffer[c1.bufpos]) % 256,
                  !.src = IF ls.alias
                          THEN [@ EXCEPT ![i] = (ls.src[i] + c1.buffer[c1.bufpos]) % 256]
                          ELSE @,
                  !.reads = @ \cup {c1.bufpos}]

\* dst[i] = src[i] ^ buffer[bufpos]; bufpos++ on cipher c1.  ls = [c, src, dst,
\* alias, reads, panic]; dst and src are one slice when alias, so a write to
\* dst[i] is seen in src[i].  Reading buffer at an index outside 0..19 is Go's
\* index-out-of-range panic.
xorByteAt(ls, c1, i) ==
  IF c1.bufpos \notin DOMAIN c1.buffer
  THEN [ls EXCEPT !.c = c1, !.reads = @ \cup {c1.bufpos}, !.panic = TRUE]
  ELSE [ls EXCEPT !.c = [c1 EXCEPT !.bufpos = @ + 1],
                  !.dst[i] = XorByte(ls.src[i], c1.buffer[c1.bufpos]),
                  !.src = IF ls.alias
                          THEN [@ EXCEPT ![i] = XorByte(ls.src[i], c1.buffer[c1.bufpos])]
                          ELSE @,
                  !.reads = @ \cup {c1.bufpos}]

\* Faulty variant of xorStep: the buffer is refilled as soon as its last byte
\* is used, not when the next byte is asked for.
xorStepEager(ls, i) ==
  IF ls.c.bufpos \notin DOMAIN ls.c.buffer
  THEN [ls EXCEPT !.reads = @ \cup {ls.c.bufpos}, !.panic = TRUE]
  ELSE [ls EXCEPT !.c = IF ls.c.bufpos + 1 = Len0(ls.c.buffer)
                        THEN nextRound(ls.c)
                        ELSE [ls.c EXCEPT !.bufpos = @ + 1],
                  !.dst[i] = XorByte(ls.src[i], ls.c.buffer[ls.c.bufpos]),
                  !.src = IF ls.alias
                          THEN [@ EXCEPT ![i] = XorByte(ls.src[i], ls.c.buffer[ls.c.bufpos])]
                          ELSE @,
                  !.reads = @ \cup {ls.c.bufpos}]

\* One iteration of XORKeyStream's loop
xorStep(ls, i) ==
  xorByteAt(ls, IF ls.c.bufpos = Len0(ls.c.buffer) THEN nextRound(ls.c) ELSE ls.c, i)

RECURSIVE xorLoop(_, _)
\* for i := range src, from iteration i on
xorLoop(ls, i) ==
  IF i >= Len0(ls.src) \/ ls.panic THEN ls ELSE xorLoop(xorStep(ls, i), i + 1)

\* Faulty variant of XORKeyStream: every call throws away what is left of the
\* buffer and starts on a new round.
XORKeyStreamDiscarding(c, dst0, src, alias) ==
  LET ls == xorLoop([c |-> [c EXCEPT !.bufpos = IF Len0(src) > 0 THEN Len0(c.buffer) ELSE @],
                     src |-> src, dst |-> IF alias THEN src ELSE dst0,
                     alias |-> alias, reads |-> {}, panic |-> FALSE], 0)
  IN  [c |-> ls.c, dst |-> ls.dst, reads |-> ls.reads, panic |-> ls.panic]

\* XORKeyStream(dst, src) on cipher c: [c, dst, reads, panic] at return.  dst0
\* is dst as passed in (src itself when alias).
XORKeyStream(c, dst0, src, alias) ==
  LET ls == xorLoop([c |-> c, src |-> src, dst |-> IF alias THEN src ELSE dst0,
                     alias |-> alias, reads |-> {}, panic |-> FALSE], 0)
  IN  [c |-> ls.c, dst |-> ls.dst, reads |-> ls.reads, panic |-> ls.panic]

\* ------------------------------------------------------------------ bounds and inputs

\* XORKeyStream calls stop once this many bytes were processed since
\* construction or the last Reset
MaxBytes == 45

\* clockRegister calls explored from each starting register
MaxClocks == 40

\* the longest src of a concurrent XORKeyStream call
MaxCall == 2

\* key and IV lengths handed to NewCipher: every valid length, and lengths
\* that break each size rule
KeyLens == {0, 4, 6, 7, 8, 12, 16, 20, 24, 28, 32, 33, 36}

IvLens == {0, 3, 4, 8, 12, 16, 17, 20, 24, 28, 32, 36, 40, 44, 49}

\* the lengths the streaming runs construct their cipher from
StreamKeyLens == {7, 8, 20, 32}

StreamIvLens == {0, 16}

KeyOf(n) == [i \in 0..(n - 1) |-> (i * 73 + 19) % 256]

IvOf(n) == [i \in 0..(n - 1) |-> (i * 41 + 200) % 256]

\* the lengths of src in one XORKeyStream call
ChunkLens == {0, 1, 7, 12, 13, 20, 25}

DataSeeds == {0, 1}

\* the n-th data byte of the stream (n from 0) under seed sd
Data(sd, n) == (sd * 113 + n * 59 + 170) % 256

Threads == {1, 2}

\* ------------------------------------------------------------------ state

VARIABLES
  cipher,     \* the Cipher in use (the zero Cipher while there is none)
  twin,       \* a second Cipher built by NewCipher from the same key and IV, never used
  ret,        \* what NewCipher returned: [isnil, err]
  keyarg,     \* NewCipher's key argument
  ivarg,      \* NewCipher's iv argument
  fill,       \* initIV's register trace (before its hadamard)
  dataseed,   \* which data stream the caller encrypts
  srcAll,     \* every src byte passed to XORKeyStream since construction or Reset
  dstAll,     \* every dst byte it produced, in order
  bufreads,   \* the buffer indices the last XORKeyStream call read
  panicked,   \* a Go runtime panic has happened
  wasReset,   \* Reset has been called
  last,       \* the last operation run
  regBefore,  \* the register before the last clockRegister call (stepwise runs)
  excl,       \* concurrent runs: callers hold an external lock around each call
  lock,       \* the thread holding that lock, 0 for none
  thr,        \* concurrent runs: each thread's position in XORKeyStream
  applied     \* concurrent runs: which keystream byte went to which data byte

vars == <<cipher, twin, ret, keyarg, ivarg, fill, dataseed, srcAll, dstAll, bufreads,
          panicked, wasReset, last, regBefore, excl, lock, thr, applied>>

concVars == <<excl, lock, thr, applied>>

IdleThread == [pc |-> "idle", i |-> 0, n |-> 0]

Init ==
  /\ cipher = ZeroCipher
  /\ twin = ZeroCipher
  /\ ret = [isnil |-> TRUE, err |-> NoError]
  /\ keyarg = Empty
  /\ ivarg = Empty
  /\ fill = NoFill
  /\ dataseed \in DataSeeds
  /\ srcAll = <<>>
  /\ dstAll = <<>>
  /\ bufreads = {}
  /\ panicked = FALSE
  /\ wasReset = FALSE
  /\ last = "init"
  /\ regBefore = ZeroCipher.reg
  /\ excl = TRUE
  /\ lock = 0
  /\ thr = [t \in Threads |-> IdleThread]
  /\ applied = {}

\* the state after cipher, err := NewCipher(key, iv) returned res, and a second
\* call with the same arguments returned the same
Constructed(res, keybytes, iv) ==
  /\ keyarg' = keybytes
  /\ ivarg' = iv
  /\ ret' = [isnil |-> res.isnil, err |-> res.err]
  /\ cipher' = res.c
  /\ twin' = res.c
  /\ fill' = res.fill
  /\ last' = "NewCipher"
  /\ UNCHANGED <<dataseed, srcAll, dstAll, bufreads, panicked, wasReset, regBefore>>
  /\ UNCHANGED concVars

\* NewCipher(key, iv) with len(key) = kl and len(iv) = vl
Construct(kl, vl) ==
  /\ last = "init"
  /\ Constructed(NewCipher(KeyOf(kl), IvOf(vl)), KeyOf(kl), IvOf(vl))

DoNewCipher == \E kl \in StreamKeyLens, vl \in StreamIvLens : Construct(kl, vl)

\* the bytes of a 0-indexed slice as a sequence
SeqOf(f) == [k \in 1..Len0(f) |-> f[k - 1]]

\* the state after cipher.XORKeyStream(dst, src) returned res
Streamed(res, src) ==
  /\ cipher' = res.c
  /\ srcAll' = srcAll \o SeqOf(src)
  /\ dstAll' = dstAll \o SeqOf(res.dst)
  /\ bufreads' = res.reads
  /\ panicked' = res.panic
  /\ last' = "XORKeyStream"
  /\ UNCHANGED <<twin, ret, keyarg, ivarg, fill, dataseed, wasReset, regBefore>>
  /\ UNCHANGED concVars

\* the next n data bytes of the caller's stream
NextData(n) == [i \in 0..(n - 1) |-> Data(dataseed, Len(srcAll) + i)]

\* a fresh dst of n bytes
Fresh(n) == [i \in 0..(n - 1) |-> 0]

\* cipher.XORKeyStream(dst, src) with len(dst) = len(src) = n; alias: dst is src
DoXORKeyStream ==
  /\ last \in {"NewCipher", "XORKeyStream", "Reset"}
  /\ ~ret.isnil
  /\ ~panicked
  /\ \E n \in ChunkLens, alias \in BOOLEAN :
       /\ Len(srcAll) + n <= MaxBytes
       /\ Streamed(XORKeyStream(cipher, Fresh(n), NextData(n), alias), NextData(n))

\* cipher.Reset()
DoReset ==
  /\ last \in {"NewCipher", "XORKeyStream", "Reset"}
  /\ ~ret.isnil
  /\ ~panicked
  /\ cipher' = Reset(cipher)
  /\ srcAll' = <<>>
  /\ dstAll' = <<>>
  /\ bufreads' = {}
  /\ wasReset' = TRUE
  /\ last' = "Reset"
  /\ UNCHANGED <<twin, ret, keyarg, ivarg, fill, dataseed, panicked, regBefore>>
  /\ UNCHANGED concVars

Next == DoNewCipher \/ DoXORKeyStream \/ DoReset

Spec == Init /\ [][Next]_vars

\* ------------------------------------------------------------------ construction alone

InitNew == Init /\ dataseed = 0

NewCipherAnySize == \E kl \in KeyLens, vl \in IvLens : Construct(kl, vl)

NextNew == NewCipherAnySize

SpecNew == InitNew /\ [][NextNew]_vars

\* ------------------------------------------------------------------ clockRegister alone

\* a constructed cipher after n bytes of XORKeyStream
CipherAfter(kl, vl, n) ==
  XORKeyStream(NewCipher(KeyOf(kl), IvOf(vl)).c, Fresh(n), [i \in 0..(n - 1) |-> Data(0, i)], FALSE).c

\* registers clockRegister runs on: after construction, after use, after Reset
ClockStarts ==
  {CipherAfter(8, 0, 0), CipherAfter(8, 0, 25), CipherAfter(20, 16, 0),
   CipherAfter(32, 16, 21), Reset(CipherAfter(8, 0, 0))}

InitClock ==
  /\ cipher \in ClockStarts
  /\ twin = ZeroCipher
  /\ ret = [isnil |-> FALSE, err |-> NoError]
  /\ keyarg = Empty
  /\ ivarg = Empty
  /\ fill = NoFill
  /\ dataseed = 0
  /\ srcAll = <<>>
  /\ dstAll = <<>>
  /\ bufreads = {}
  /\ panicked = FALSE
  /\ wasReset = FALSE
  /\ last = "start"
  /\ regBefore = cipher.reg
  /\ excl = TRUE
  /\ lock = 0
  /\ thr = [t \in Threads |-> IdleThread]
  /\ applied = {}

\* one call cipher.clockRegister()
ClockStep ==
  /\ last \in {"start", "clockRegister"}
  /\ cipher.nclock < MaxClocks
  /\ regBefore' = cipher.reg
  /\ cipher' = clockRegister(cipher)
  /\ last' = "clockRegister"
  /\ UNCHANGED <<twin, ret, keyarg, ivarg, fill, dataseed, srcAll, dstAll, bufreads,
                 panicked, wasReset>>
  /\ UNCHANGED concVars

NextClock == ClockStep

SpecClock == InitClock /\ [][NextClock]_vars

\* ------------------------------------------------------------------ two callers of XORKeyStream

\* the cipher both callers share: constructed, then used for 0, 18, 19 or 20 bytes
ConcStarts == {CipherAfter(8, 0, 0), CipherAfter(8, 0, 18), CipherAfter(8, 0, 19), CipherAfter(8, 0, 20)}

InitConc ==
  /\ cipher \in ConcStarts
  /\ twin = ZeroCipher
  /\ ret = [isnil |-> FALSE, err |-> NoError]
  /\ keyarg = Empty
  /\ ivarg = Empty
  /\ fill = NoFill
  /\ dataseed = 0
  /\ srcAll = <<>>
  /\ dstAll = <<>>
  /\ bufreads = {}
  /\ panicked = FALSE
  /\ wasReset = FALSE
  /\ last = "conc"
  /\ regBefore = ZeroCipher.reg
  /\ excl \in BOOLEAN
  /\ lock = 0
  /\ thr = [t \in Threads |-> IdleThread]
  /\ applied = {}

seqVars == <<twin, ret, keyarg, ivarg, fill, dataseed, srcAll, dstAll, bufreads,
             wasReset, last, regBefore, excl>>

\* thread t calls cipher.XORKeyStream(dst, src) with len(src) = n >= 1, taking
\* the callers' lock first when they use one
Begin(t) ==
  /\ ~panicked
  /\ thr[t].pc = "idle"
  /\ excl => lock = 0
  /\ \E n \in 1..MaxCall : thr' = [thr EXCEPT ![t] = [pc |-> "test", i |-> 0, n |-> n]]
  /\ lock' = IF excl THEN t ELSE lock
  /\ UNCHANGED <<cipher, panicked, applied>>
  /\ UNCHANGED seqVars

\* Faulty variant of Test: the refill test is bufpos > len(buffer).
TestGreater(t) ==
  /\ ~panicked
  /\ thr[t].pc = "test"
  /\ thr' = [thr EXCEPT ![t].pc = IF cipher.bufpos > Len0(cipher.buffer) THEN "round" ELSE "xor"]
  /\ UNCHANGED <<cipher, panicked, applied, lock>>
  /\ UNCHANGED seqVars

\* if cipher.bufpos == len(cipher.buffer)
Test(t) ==
  /\ ~panicked
  /\ thr[t].pc = "test"
  /\ thr' = [thr EXCEPT ![t].pc = IF cipher.bufpos = Len0(cipher.buffer) THEN "round" ELSE "xor"]
  /\ UNCHANGED <<cipher, panicked, applied, lock>>
  /\ UNCHANGED seqVars

\* cipher.nextRound()
Round(t) ==
  /\ ~panicked
  /\ thr[t].pc = "round"
  /\ cipher' = nextRound(cipher)
  /\ thr' = [thr EXCEPT ![t].pc = "xor"]
  /\ UNCHANGED <<panicked, applied, lock>>
  /\ UNCHANGED seqVars

\* dst[i] = src[i] ^ cipher.buffer[cipher.bufpos]
XorByteStep(t) ==
  /\ ~panicked
  /\ thr[t].pc = "xor"
  /\ IF cipher.bufpos \in DOMAIN cipher.buffer
     THEN /\ applied' = applied \cup {[t |-> t, i |-> thr[t].i,
                                      rnd |-> Len(cipher.blocks), pos |-> cipher.bufpos]}
          /\ thr' = [thr EXCEPT ![t].pc = "inc"]
          /\ UNCHANGED panicked
     ELSE /\ panicked' = TRUE
          /\ thr' = [thr EXCEPT ![t].pc = "panic"]
          /\ UNCHANGED applied
  /\ UNCHANGED <<cipher, lock>>
  /\ UNCHANGED seqVars

\* cipher.bufpos++, and the loop's next iteration or the return
Inc(t) ==
  /\ ~panicked
  /\ thr[t].pc = "inc"
  /\ cipher' = [cipher EXCEPT !.bufpos = @ + 1]
  /\ thr' = [thr EXCEPT ![t].i = @ + 1,
                        ![t].pc = IF thr[t].i + 1 < thr[t].n THEN "test" ELSE "done"]
  /\ lock' = IF excl /\ thr[t].i + 1 >= thr[t].n THEN 0 ELSE lock
  /\ UNCHANGED <<panicked, applied>>
  /\ UNCHANGED seqVars

NextConc == \E t \in Threads : Begin(t) \/ Test(t) \/ Round(t) \/ XorByteStep(t) \/ Inc(t)

SpecConc == InitConc /\ [][NextConc]_vars

\* ------------------------------------------------------------------ properties

\* a sequence as a 0-indexed slice
FnOf(sq) == [i \in 0..(Len(sq) - 1) |-> sq[i + 1]]

\* dst of one XORKeyStream call on the unused twin cipher over all of sq
OneShot(sq, alias) == SeqOf(XORKeyStream(twin, Fresh(Len(sq)), FnOf(sq), alias).dst)

\* C1: the bytes produced by any sequence of XORKeyStream calls on a cipher
\* built by NewCipher equal the bytes one call over the whole input produces
\* on a second cipher built from the same key and IV, and no call panics.
C1_ChunkingIndependent ==
  (last = "XORKeyStream" /\ ~wasReset) =>
    /\ ~panicked
    /\ dstAll = OneShot(srcAll, FALSE)

\* 25 bytes were processed, the last call being 13 bytes that follow 12 and
\* cross the round boundary at byte 20
C1_Witness ==
  /\ last = "XORKeyStream"
  /\ ~wasReset
  /\ Len(srcAll) = 25
  /\ bufreads = (12..19) \cup (0..4)

\* C2: applying XORKeyStream with the second cipher (same key and IV) to what
\* the first cipher produced gives back the original data, whether dst is a
\* fresh slice or src itself.
C2_Involution ==
  (last = "XORKeyStream" /\ ~wasReset) =>
    /\ OneShot(dstAll, FALSE) = srcAll
    /\ OneShot(dstAll, TRUE) = srcAll

\* at least two rounds of keystream were applied and changed the data
C2_Witness ==
  /\ last = "XORKeyStream"
  /\ ~wasReset
  /\ Len(srcAll) >= 21
  /\ dstAll # srcAll

\* the five size rules in the order the documentation lists them
RuleBroken(k, keylen, ivlen) ==
  CASE k = 1 -> keylen % 4 # 0
    [] k = 2 -> ivlen % 4 # 0
    [] k = 3 -> keylen < 8
    [] k = 4 -> keylen > 32
    [] k = 5 -> keylen + ivlen > 48

RuleText ==
  <<"key size must be a multiple of 4", "iv size must be a multiple of 4",
    "key size must be >= 8", "key size must be <= 32",
    "combined key and iv sizes must be <= 48">>

BrokenRules(keylen, ivlen) == {k \in 1..5 : RuleBroken(k, keylen, ivlen)}

FirstBroken(keylen, ivlen) ==
  CHOOSE k \in BrokenRules(keylen, ivlen) : \A j \in BrokenRules(keylen, ivlen) : k <= j

\* C3: NewCipher returns a nil cipher and the error of the first broken size
\* rule, having derived nothing; it returns a cipher and a nil error exactly
\* when no rule is broken.
C3_FirstViolationReported ==
  last = "NewCipher" =>
    IF BrokenRules(Len0(keyarg), Len0(ivarg)) # {}
    THEN /\ ret.isnil
         /\ ret.err = RuleText[FirstBroken(Len0(keyarg), Len0(ivarg))]
         /\ cipher = ZeroCipher
         /\ fill = NoFill
    ELSE /\ ~ret.isnil
         /\ ret.err = NoError

\* a 36-byte key with a 16-byte IV breaks rules 4 and 5; rule 4 is reported
C3_Witness ==
  /\ last = "NewCipher"
  /\ Len0(keyarg) = 36
  /\ Len0(ivarg) = 16
  /\ ret.isnil
  /\ ret.err = "key size must be <= 32"

AllZeroWords(f) == \A i \in DOMAIN f : f[i] = Zero

\* C4: right after Reset every key word, every entry of the four keyboxes,
\* every register word and every buffer byte is 0 and bufpos is 0; the key
\* keeps its length.
C4_ResetZeroes ==
  last = "Reset" =>
    /\ Len0(cipher.key) = Len0(keyarg) \div 4
    /\ AllZeroWords(cipher.key)
    /\ DOMAIN cipher.keybox = 0..3
    /\ \A box \in 0..3 : DOMAIN cipher.keybox[box] = 0..255 /\ AllZeroWords(cipher.keybox[box])
    /\ DOMAIN cipher.reg = 0..16
    /\ AllZeroWords(cipher.reg)
    /\ DOMAIN cipher.buffer = 0..19
    /\ \A i \in 0..19 : cipher.buffer[i] = 0
    /\ cipher.bufpos = 0

\* Reset ran on a cipher with an 8-word key whose state was not zero before
C4_Witness ==
  /\ last = "Reset"
  /\ Len0(cipher.key) = 8
  /\ ~AllZeroWords(twin.key)
  /\ ~AllZeroWords(twin.reg)
  /\ ~AllZeroWords(twin.keybox[3])

\* C5: with a constructed cipher used sequentially, bufpos stays in 0..20, is
\* 0 right after construction, and XORKeyStream reads buffer only at 0..19.
C5_CursorInRange ==
  ~ret.isnil =>
    /\ cipher.bufpos \in 0..20
    /\ bufreads \subseteq 0..19
    /\ ~panicked
    /\ last = "NewCipher" => cipher.bufpos = 0

\* the cursor rests at 20 after exactly 40 bytes, the last call having read
\* the buffer up to index 19
C5_Witness ==
  /\ ~ret.isnil
  /\ last = "XORKeyStream"
  /\ ~wasReset
  /\ Len(srcAll) = 40
  /\ cipher.bufpos = 20
  /\ 19 \in bufreads

\* the number of key words and IV words of the arguments
KeyWordsOf == Len0(keyarg) \div 4

IvWordsOf == Len0(ivarg) \div 4

ValidSizes ==
  /\ Len0(keyarg) \in {8, 12, 16, 20, 24, 28, 32}
  /\ Len0(ivarg) % 4 = 0
  /\ Len0(keyarg) + Len0(ivarg) <= 48

\* C6: for every valid size pair NewCipher returns a cipher, and initIV wrote
\* the substituted IV words at 0..iw-1, the key words at iw..iw+kw-1, the
\* marker word at iw+kw <= 12 and the keyed recurrence at every later index up
\* to 16 (at least 4 of them), using no register index outside 0..16.
C6_RegisterLayout ==
  (last = "NewCipher" /\ ValidSizes) =>
    LET kw == KeyWordsOf
        iw == IvWordsOf
        m == iw + kw
    IN  /\ ~ret.isnil
        /\ ~fill.panic
        /\ fill.acc = 0..16
        /\ DOMAIN cipher.reg = 0..16
        /\ m <= 12
        /\ 16 - m >= 4
        /\ \A i \in 0..(iw - 1) :
             fill.reg[i] = fixedS(joinWord([k \in 0..3 |-> ivarg[4 * i + k]]))
        /\ \A j \in 0..(kw - 1) : fill.reg[iw + j] = cipher.key[j]
        /\ fill.reg[m] = <<258, 768 + 16 * kw + iw>>
        /\ \A r \in (m + 1)..16 :
             fill.reg[r] = keyedS(cipher.keybox, Add(fill.reg[r - (m + 1)], fill.reg[r - 1]), 0)

\* a 32-byte key with a 16-byte IV: the marker lands on index 12 and exactly
\* four slots are left to the recurrence
C6_Witness ==
  /\ last = "NewCipher"
  /\ ValidSizes
  /\ KeyWordsOf = 8
  /\ IvWordsOf = 4
  /\ ~ret.isnil
  /\ fill.r = 17

\* the register one clockRegister call makes of register r, its feedback
\* word taking the tap at index tap
Clocked(r, tap) ==
  [i \in 0..16 |->
     IF i < 16 THEN r[i + 1]
     ELSE Xor(Xor(Xor(r[tap], r[4]), Shl(r[0], 8)), mtab[r[0][1] \div 256])]

\* C7 as stated: the feedback word is reg[16] ^ reg[4] ^ (reg[0] << 8) ^
\* mtab[reg[0] >> 24] of the register before the shift.
C7_FeedbackFromTap16 == last = "clockRegister" => cipher.reg = Clocked(regBefore, 16)

\* C7 amended: the feedback word is reg[15] ^ reg[4] ^ (reg[0] << 8) ^
\* mtab[reg[0] >> 24], all of the register before the shift; then
\* reg[i] = old reg[i+1] for i in 0..15 and reg[16] is the new word.
C7_FeedbackFromTap15 == last = "clockRegister" => cipher.reg = Clocked(regBefore, 15)

\* a clock of a register whose word 0 has a non-zero top byte (the shift by 8
\* drops bits and the table entry is not 0) and whose words 15 and 16 differ
C7_Witness ==
  /\ last = "clockRegister"
  /\ regBefore[0][1] >= 256
  /\ regBefore[15] # regBefore[16]
  /\ regBefore[1] # regBefore[0]

\* C8: without Reset, byte n of the stream (from 0) is XORed with byte n mod 20
\* of the block of round n div 20 + 1, round 1 being NewCipher's; a round runs
\* only when a byte is asked for with the cursor at 20; every round clocks the
\* register 5 times.
C8_LazyRefill ==
  (~ret.isnil /\ ~wasReset /\ last \in {"NewCipher", "XORKeyStream"}) =>
    LET n == Len(srcAll)
        rounds == IF n = 0 THEN 1 ELSE (n + 19) \div 20
    IN  /\ Len(dstAll) = n
        /\ Len(cipher.blocks) = rounds
        /\ \A k \in 0..(n - 1) :
             dstAll[k + 1] = XorByte(srcAll[k + 1], cipher.blocks[(k \div 20) + 1][k % 20])
        /\ cipher.nclock = 5 * rounds
        /\ cipher.bufpos = IF n = 0 THEN 0 ELSE n - 20 * (rounds - 1)
        /\ cipher.buffer = cipher.blocks[rounds]

\* after exactly 40 bytes two rounds have run and the cursor rests at 20
C8_Witness ==
  /\ ~ret.isnil
  /\ ~wasReset
  /\ last = "XORKeyStream"
  /\ Len(srcAll) = 40
  /\ Len(cipher.blocks) = 2
  /\ cipher.nclock = 10
  /\ cipher.bufpos = 20

\* C9: after Reset, XORKeyStream does not fail and the first 20 bytes it
\* processes come out unchanged.
C9_PassThroughAfterReset ==
  (wasReset /\ ~ret.isnil) =>
    /\ ~panicked
    /\ Len(dstAll) = Len(srcAll)
    /\ \A k \in 1..Len(srcAll) : k <= 20 => dstAll[k] = srcAll[k]

\* 20 or more bytes went through a Reset cipher whose keystream was not zero
\* before the Reset
C9_Witness ==
  /\ wasReset
  /\ last = "XORKeyStream"
  /\ Len(srcAll) >= 20
  /\ \E i \in 0..19 : twin.buffer[i] # 0
  /\ \A k \in 1..20 : dstAll[k] = srcAll[k]

\* one keystream byte (round, index) went to two different data bytes
DupApplied ==
  \E u \in applied, v \in applied : u # v /\ u.rnd = v.rnd /\ u.pos = v.pos

BadCursorState == DupApplied \/ panicked \/ cipher.bufpos > 20

\* C10: when every XORKeyStream call runs under the callers' lock, no keystream
\* byte is applied twice, the buffer is never read outside 0..19 and bufpos
\* never exceeds 20; without the lock such a state is reachable.
C10_ExclusionKeepsCursor == excl => ~BadCursorState

\* two unlocked callers: a keystream byte applied twice, bufpos past 20, and
\* a read of buffer outside its bounds
C10_Witness ==
  /\ ~excl
  /\ DupApplied
  /\ cipher.bufpos > 20
  /\ panicked

====
